---- MODULE Spec2Model ----
(***************************************************************************)
(* Model of the PDF extraction API route (pages/api/process): the request  *)
(* handler, extractText, extractImages and performOCR.                     *)
(*                                                                         *)
(* Strings are sequences of one-character strings, so that trimming,       *)
(* folding and joining are computed character by character.                *)
(***************************************************************************)
EXTENDS Integers, Sequences, FiniteSets, TLC

VARIABLES
    pc,               \* position of the handler (or of the function under test)
    method,           \* req.method
    upload,           \* the file part of the request body, as sent
    file,             \* req.file after the upload middleware
    format,           \* const format
    includeMetadata,  \* const includeMetadata
    includeImages,    \* const includeImages
    doc,              \* the document behind pdfBuffer
    extractedImages,  \* let extractedImages (Undefined until assigned)
    result,           \* let result
    processedWith,    \* let processedWith
    response,         \* the responses sent on res, in order
    callSite,         \* which call of extractImages is running
    eiI, eiJ,         \* extractImages: page index i, operator index j
    images,           \* extractImages: const images
    etI,              \* extractText: page index i
    pageText,         \* extractText: const pageText of the page just folded
    fullText,         \* extractText: let fullText
    text,             \* the value extractText returned
    ocrImages,        \* handler, case 'ocr': const images
    ocrIdx,           \* handler, case 'ocr': position of the for-of loop
    ocrResults,       \* handler, case 'ocr': const ocrResults
    ocrTexts,         \* what worker.recognize returned, per image (input record)
    worker,           \* performOCR: const worker ("none" when no engine is held)
    thrown,           \* performOCR: the call whose exception is pending ("none" if none)
    ocrText,          \* performOCR: the recognized text about to be returned
    rasterRuns,       \* number of calls of extractImages in this request
    textRuns,         \* number of calls of extractText in this request
    workersCreated,   \* number of createWorker() calls that resolved
    terminateCalls,   \* number of worker.terminate() calls
    recognizeCalls    \* number of worker.recognize() calls

vars == <<pc, method, upload, file, format, includeMetadata, includeImages, doc,
          extractedImages, result, processedWith, response, callSite, eiI, eiJ,
          images, etI, pageText, fullText, text, ocrImages, ocrIdx, ocrResults,
          ocrTexts, worker, thrown, ocrText, rasterRuns, textRuns,
          workersCreated, terminateCalls, recognizeCalls>>

(***************************************************************************)
(* Bounds                                                                  *)
(***************************************************************************)
MaxPages == 2      \* pages of a document
MaxOps == 2        \* paint operations of a whole document (extractImages runs)

(***************************************************************************)
(* Program constants                                                       *)
(***************************************************************************)
FileSizeLimit == 10 * 1024 * 1024
MinDim == 50

(***************************************************************************)
(* Strings                                                                 *)
(***************************************************************************)
IsWs(c) == c \in {" ", "\n", "\t"}

RECURSIVE TrimStart(_)
TrimStart(s) ==
    IF s # <<>> /\ IsWs(Head(s)) THEN TrimStart(Tail(s)) ELSE s

RECURSIVE TrimEnd(_)
TrimEnd(s) ==
    IF s # <<>> /\ IsWs(s[Len(s)]) THEN TrimEnd(SubSeq(s, 1, Len(s) - 1)) ELSE s

\* String.prototype.trim
Trim(s) == TrimEnd(TrimStart(s))

\* /[.!?]$/.test(s)
EndsWithPunct(s) == s # <<>> /\ s[Len(s)] \in {".", "!", "?"}

\* /\s$/.test(s)
EndsWithWs(s) == s # <<>> /\ IsWs(s[Len(s)])

\* Array.prototype.join
RECURSIVE Join(_, _)
Join(ss, sep) ==
    IF ss = <<>> THEN <<>>
    ELSE IF Len(ss) = 1 THEN ss[1]
    ELSE ss[1] \o sep \o Join(Tail(ss), sep)

NL2 == <<"\n", "\n">>

(***************************************************************************)
(* extractText                                                             *)
(***************************************************************************)
\* the reducer of content.items.map(item => item.str).reduce(..., '')
FoldStep(acc, word) ==
    IF EndsWithPunct(acc) THEN acc \o <<" ">> \o word
    ELSE IF EndsWithWs(acc) THEN acc \o word
    ELSE acc \o <<" ">> \o word

RECURSIVE Reduce(_, _)
Reduce(words, acc) ==
    IF words = <<>> THEN acc ELSE Reduce(Tail(words), FoldStep(acc, Head(words)))

PageTextOf(tokens) == Reduce(tokens, <<>>)

(***************************************************************************)
(* extractImages: the comparator and Array.prototype.sort                  *)
(***************************************************************************)
\* the comparator passed to images.sort
Compare_EmbeddedFirst(a, b) ==
    IF a.pageNumber # b.pageNumber THEN a.pageNumber - b.pageNumber
    ELSE IF a.type = "page" THEN 1 ELSE -1

Compare(a, b) ==
    IF a.pageNumber # b.pageNumber THEN a.pageNumber - b.pageNumber
    ELSE IF a.type = "page" THEN -1 ELSE 1

Reverse(s) == [k \in 1..Len(s) |-> s[Len(s) + 1 - k]]

\* V8 array-sort.tq, CountAndMakeRun: the length of the run that starts the
\* array, extended from idx while the order (descending or not) is kept
RECURSIVE ExtendRun(_, _, _)
ExtendRun(s, idx, isDescending) ==
    IF idx > Len(s) THEN idx - 1
    ELSE LET order == Compare(s[idx], s[idx - 1]) IN
         IF isDescending
         THEN (IF order >= 0 THEN idx - 1 ELSE ExtendRun(s, idx + 1, isDescending))
         ELSE (IF order < 0 THEN idx - 1 ELSE ExtendRun(s, idx + 1, isDescending))

\* V8 array-sort.tq, BinaryInsertionSort: the insertion point of pivot in
\* s[left+1 .. right] (left and right are 0-based, as in the source)
RECURSIVE BinarySearch(_, _, _, _)
BinarySearch(s, pivot, left, right) ==
    IF left < right
    THEN LET mid == left + ((right - left) \div 2) IN
         IF Compare(pivot, s[mid + 1]) < 0
         THEN BinarySearch(s, pivot, left, mid)
         ELSE BinarySearch(s, pivot, mid + 1, right)
    ELSE left

RECURSIVE BinaryInsertionSort(_, _)
BinaryInsertionSort(s, start) ==
    IF start >= Len(s) THEN s
    ELSE LET pivot == s[start + 1]
             left == BinarySearch(s, pivot, 0, start)
             moved == SubSeq(s, 1, left) \o <<pivot>> \o SubSeq(s, left + 1, start)
                      \o SubSeq(s, start + 2, Len(s))
         IN BinaryInsertionSort(moved, start + 1)

\* Array.prototype.sort as V8 runs it on arrays shorter than 64 elements: one
\* run is counted (and reversed when descending), the rest is inserted into it
SortImages(s) ==
    IF Len(s) < 2 THEN s
    ELSE LET isDescending == Compare(s[2], s[1]) < 0
             run == ExtendRun(s, 3, isDescending)
             made == IF isDescending
                     THEN Reverse(SubSeq(s, 1, run)) \o SubSeq(s, run + 1, Len(s))
                     ELSE s
         IN BinaryInsertionSort(made, run)

(***************************************************************************)
(* Documents                                                               *)
(***************************************************************************)
\* what page.objs.get does for one paint operation: it calls back with an
\* image (or a null object), throws, or never calls back
\* the null object (no image behind the name)
NoImage == [present |-> FALSE, width |-> 0, height |-> 0, data |-> FALSE]
Img(w, h, d) ==
    [outcome |-> "resolve", image |-> [present |-> TRUE, width |-> w, height |-> h, data |-> d]]
NullImg == [outcome |-> "resolve", image |-> NoImage]
Throws == [outcome |-> "throw", image |-> NoImage]
Never == [outcome |-> "never", image |-> NoImage]

OpKinds ==
    {Img(MinDim + 1, MinDim + 1, TRUE), Img(MinDim, MinDim + 1, TRUE),
     Img(MinDim + 1, MinDim, TRUE), Img(0, MinDim + 1, TRUE),
     Img(MinDim + 1, MinDim + 1, FALSE), NullImg, Throws, Never}

RECURSIVE SeqsOfLen(_, _)
SeqsOfLen(S, n) ==
    IF n = 0 THEN {<<>>}
    ELSE {Append(s, x) : s \in SeqsOfLen(S, n - 1), x \in S}

SeqsUpTo(S, n) == UNION {SeqsOfLen(S, k) : k \in 0..n}

\* a page: the strs of its text items, its paint operations, whether
\* page.render succeeds, and its viewport at scale 1
Page(ts, os, r) == [tokens |-> ts, ops |-> os, renderOk |-> r, width |-> 60, height |-> 80]

\* the paint operations os[k] that the assignment at puts on page i, in order
RECURSIVE OpsOfPage(_, _, _, _)
OpsOfPage(os, at, i, k) ==
    IF k > Len(os) THEN <<>>
    ELSE IF at[k] = i THEN <<os[k]>> \o OpsOfPage(os, at, i, k + 1)
    ELSE OpsOfPage(os, at, i, k + 1)

\* a parsed document of p pages without text: the paint operations os are
\* spread over the pages by at, page i renders iff rs[i]
MakeDoc(p, os, at, rs) ==
    [parseOk |-> TRUE,
     pages |-> [i \in 1..p |-> Page(<<>>, OpsOfPage(os, at, i, 1), rs[i])]]

Monotone(at) == \A k \in DOMAIN at : \A l \in DOMAIN at : k <= l => at[k] <= at[l]

\* let extractedImages: undefined, or the object extractImages returned
Undefined == [defined |-> FALSE, images |-> <<>>]
Defined(imgs) == [defined |-> TRUE, images |-> imgs]

\* a request without a file part
NoUpload == [present |-> FALSE, size |-> 0]

\* req.file when the request carries no file
NoFile == [present |-> FALSE, size |-> 0, originalname |-> <<>>]

\* let result before the switch assigns it: an object with no fields
NoResult == [f \in {} |-> <<>>]

Unparseable == [parseOk |-> FALSE, pages |-> <<>>]

\* doc is a document of at most MaxPages pages and MaxOps paint operations
\* in all, or a buffer that getDocument rejects
PickImageDoc ==
    \/ doc = Unparseable
    \/ \E p \in 0..MaxPages, os \in SeqsUpTo(OpKinds, MaxOps) :
         \E at \in [1..Len(os) -> 1..p], rs \in [1..p -> BOOLEAN] :
            /\ Monotone(at)
            /\ doc = MakeDoc(p, os, at, rs)

\* res.status(st).json(body)
Respond(st, body) ==
    /\ response' = Append(response, [status |-> st, body |-> body])
    /\ pc' = "done"

\* the catch of lines 283-286
Catch(message) == Respond(500, [error |-> "Error processing PDF: " \o message])

(***************************************************************************)
(* extractImages (lines 80-182)                                            *)
(***************************************************************************)
\* the condition of line 108
PassesFilter_AtLeast(image) ==
    /\ image.present
    /\ image.data
    /\ image.width # 0
    /\ image.height # 0
    /\ image.width >= MinDim
    /\ image.height >= MinDim

PassesFilter(image) ==
    /\ image.present
    /\ image.data
    /\ image.width # 0
    /\ image.height # 0
    /\ image.width > MinDim
    /\ image.height > MinDim

EmbeddedEntry(i, j, image) ==
    [data |-> <<"image", i, j>>, type |-> "image", pageNumber |-> i,
     width |-> image.width, height |-> image.height]

PageEntry(i, pg) ==
    [data |-> <<"page", i, 0>>, type |-> "page", pageNumber |-> i,
     width |-> 2 * pg.width, height |-> 2 * pg.height]

\* extractImages returns imgs: line 233 assigns the object to extractedImages,
\* line 253 binds it to the local images of case 'ocr'
EI_Deliver(imgs) ==
    IF callSite = "ocr"
    THEN /\ ocrImages' = imgs
         /\ ocrIdx' = 1
         /\ pc' = "ocr_loop"
         /\ UNCHANGED extractedImages
    ELSE /\ extractedImages' = Defined(imgs)
         /\ pc' = IF callSite = "pre" THEN "switch" ELSE "ei_done"
         /\ UNCHANGED <<ocrImages, ocrIdx>>

eiVars == <<eiI, eiJ, images>>
reqVars == <<method, upload, file, format, includeMetadata, includeImages, doc>>
etVars == <<etI, pageText, fullText, text>>
ocrVars == <<ocrResults, ocrTexts, worker, thrown, ocrText,
             workersCreated, terminateCalls, recognizeCalls>>
outVars == <<result, processedWith, response>>

\* lines 178-181: the catch around the whole extraction
EI_Catch_Rethrow ==
    /\ Catch("Invalid PDF structure")
    /\ UNCHANGED <<extractedImages, ocrImages, ocrIdx>>

EI_Catch ==
    /\ EI_Deliver(<<>>)
    /\ UNCHANGED response

\* lines 136-138: the catch around one paint operation
EI_ItemError_Abort ==
    /\ EI_Deliver(<<>>)
    /\ UNCHANGED eiVars

EI_ItemError ==
    /\ eiJ' = eiJ + 1
    /\ UNCHANGED <<pc, eiI, images, extractedImages, ocrImages, ocrIdx>>

\* lines 81-84, and the catch when getDocument rejects
EI_Open ==
    /\ pc = "ei_open"
    /\ rasterRuns' = rasterRuns + 1
    /\ IF doc.parseOk
       THEN /\ images' = <<>>
            /\ eiI' = 1
            /\ eiJ' = 1
            /\ pc' = "ei_page"
            /\ UNCHANGED <<extractedImages, ocrImages, ocrIdx, response>>
       ELSE /\ EI_Catch
            /\ UNCHANGED eiVars
    /\ UNCHANGED <<reqVars, etVars, ocrVars, result, processedWith, callSite, textRuns>>

\* lines 92-140: the loop heads and the body of the operator loop for one
\* paint operation
EI_Op ==
    /\ pc = "ei_page"
    /\ eiI <= Len(doc.pages)
    /\ eiJ <= Len(doc.pages[eiI].ops)
    /\ LET op == doc.pages[eiI].ops[eiJ] IN
       CASE op.outcome = "never" ->
              /\ pc' = "ei_hung"
              /\ UNCHANGED <<eiVars, extractedImages, ocrImages, ocrIdx>>
         [] op.outcome = "throw" ->
              EI_ItemError
         [] OTHER ->
              /\ images' = IF PassesFilter(op.image)
                           THEN Append(images, EmbeddedEntry(eiI, eiJ, op.image))
                           ELSE images
              /\ eiJ' = eiJ + 1
              /\ UNCHANGED <<pc, eiI, extractedImages, ocrImages, ocrIdx>>
    /\ UNCHANGED <<reqVars, etVars, ocrVars, outVars, callSite, rasterRuns, textRuns>>

\* lines 142-166: the full page render, after the operator loop of the page
EI_Render ==
    /\ pc = "ei_page"
    /\ eiI <= Len(doc.pages)
    /\ eiJ > Len(doc.pages[eiI].ops)
    /\ images' = IF doc.pages[eiI].renderOk
                 THEN Append(images, PageEntry(eiI, doc.pages[eiI]))
                 ELSE images
    /\ eiI' = eiI + 1
    /\ eiJ' = 1
    /\ UNCHANGED <<pc, reqVars, etVars, ocrVars, outVars, callSite, extractedImages,
                   ocrImages, ocrIdx, rasterRuns, textRuns>>

\* lines 169-177
EI_Return ==
    /\ pc = "ei_page"
    /\ eiI > Len(doc.pages)
    /\ images' = SortImages(images)
    /\ EI_Deliver(images')
    /\ UNCHANGED <<eiI, eiJ, reqVars, etVars, ocrVars, outVars, callSite,
                   rasterRuns, textRuns>>

InitImages ==
    /\ pc = "ei_open"
    /\ callSite = "top"
    /\ PickImageDoc
    /\ method = "POST"
    /\ upload = NoUpload
    /\ file = NoFile
    /\ format = "images"
    /\ includeMetadata = FALSE
    /\ includeImages = FALSE
    /\ extractedImages = Undefined
    /\ result = NoResult
    /\ processedWith = "images"
    /\ response = <<>>
    /\ eiI = 0 /\ eiJ = 0 /\ images = <<>>
    /\ etI = 0 /\ pageText = <<>> /\ fullText = <<>> /\ text = <<>>
    /\ ocrImages = <<>> /\ ocrIdx = 0 /\ ocrResults = <<>> /\ ocrTexts = <<>>
    /\ worker = "none" /\ thrown = "none" /\ ocrText = <<>>
    /\ rasterRuns = 0 /\ textRuns = 0
    /\ workersCreated = 0 /\ terminateCalls = 0 /\ recognizeCalls = 0

NextImages == EI_Open \/ EI_Op \/ EI_Render \/ EI_Return

SpecImages == InitImages /\ [][NextImages]_vars

(***************************************************************************)
(* The request handler (lines 210-287)                                     *)
(***************************************************************************)
Methods == {"POST", "GET", "PUT"}
RawFormats == {"", "text", "markdown", "images", "ocr", "pdf"}
RawFlags == {"true", "false"}

Str(a) == <<a>>

\* the pages the handler's documents are made of
SamplePages ==
    {Page(<<>>, <<>>, TRUE),
     Page(<<<<>>, Str(" ")>>, <<>>, TRUE),
     Page(<<Str("a"), <<" ", "b">>>>, <<Img(MinDim + 1, MinDim + 1, TRUE)>>, TRUE),
     Page(<<<<"c", ".">>, Str("d")>>, <<Throws, Img(MinDim, MinDim + 1, TRUE)>>, FALSE),
     Page(<<Str("e")>>, <<Never>>, TRUE)}

HandlerDocs ==
    {Unparseable} \cup
    {[parseOk |-> TRUE, pages |-> ps] : ps \in SeqsUpTo(SamplePages, MaxPages)}

\* what worker.recognize can return for an image
OcrOutputs == {<<>>, Str(" "), Str("x"), <<"y", "\n">>}

\* createMetadata (lines 198-208)
createMetadata(fileInfo, pw) ==
    [fileSize |-> fileInfo.size, filename |-> fileInfo.originalname,
     timestamp |-> "now", processedWith |-> pw, extractionMethod |-> "pdf.js-enhanced"]

Init ==
    /\ pc = "start"
    /\ callSite = "pre"
    /\ doc = Unparseable
    /\ method = "POST"
    /\ upload = NoUpload
    /\ file = NoFile
    /\ format = "text"
    /\ includeMetadata = FALSE
    /\ includeImages = FALSE
    /\ extractedImages = Undefined
    /\ result = NoResult
    /\ processedWith = "text"
    /\ response = <<>>
    /\ eiI = 0 /\ eiJ = 0 /\ images = <<>>
    /\ etI = 0 /\ pageText = <<>> /\ fullText = <<>> /\ text = <<>>
    /\ ocrImages = <<>> /\ ocrIdx = 0 /\ ocrResults = <<>> /\ ocrTexts = <<>>
    /\ worker = "none" /\ thrown = "none" /\ ocrText = <<>>
    /\ rasterRuns = 0 /\ textRuns = 0
    /\ workersCreated = 0 /\ terminateCalls = 0 /\ recognizeCalls = 0

\* lines 211-213
CheckMethod ==
    /\ pc = "start"
    /\ \E m \in Methods :
         /\ method' = m
         /\ IF m # "POST"
            THEN Respond(405, [error |-> "Method not allowed"])
            ELSE pc' = "upload" /\ UNCHANGED response
    /\ UNCHANGED <<upload, file, format, includeMetadata, includeImages, doc,
                   extractedImages, result, processedWith, callSite, eiVars, etVars, ocrVars,
                   ocrImages, ocrIdx, rasterRuns, textRuns>>

\* lines 216-220: the upload middleware (multer, lines 9-12) and the file check
RunMiddleware ==
    /\ pc = "upload"
    /\ \/ \* no file part in the request
          /\ upload' = NoUpload
          /\ Respond(400, [error |-> "No PDF file uploaded"])
          /\ UNCHANGED <<file, doc>>
       \/ \E size \in {FileSizeLimit, FileSizeLimit + 1}, d \in HandlerDocs :
            /\ upload' = [present |-> TRUE, size |-> size]
            /\ IF size > FileSizeLimit
               THEN \* multer passes a MulterError to the callback: runMiddleware rejects
                    /\ Catch("File too large")
                    /\ UNCHANGED <<file, doc>>
               ELSE /\ file' = [present |-> TRUE, size |-> size, originalname |-> <<"f">>]
                    /\ doc' = d
                    /\ pc' = "body"
                    /\ UNCHANGED response
    /\ UNCHANGED <<method, format, includeMetadata, includeImages, extractedImages,
                   result, processedWith, callSite, eiVars, etVars, ocrVars,
                   ocrImages, ocrIdx, rasterRuns, textRuns>>

\* lines 222-234: the body fields, and the decision to extract images first
ParseBody ==
    /\ pc = "body"
    /\ \E rawFormat \in RawFormats, rawMetadata \in RawFlags, rawImages \in RawFlags :
         /\ format' = IF rawFormat = "" THEN "text" ELSE rawFormat
         /\ includeMetadata' = (rawMetadata = "true")
         /\ includeImages' = (rawImages = "true")
    /\ processedWith' = format'
    /\ callSite' = "pre"
    /\ pc' = IF format' = "images" \/ includeImages' THEN "ei_open" ELSE "switch"
    /\ UNCHANGED <<method, upload, file, doc, extractedImages, result, response, eiVars,
                   etVars, ocrVars, ocrImages, ocrIdx, rasterRuns, textRuns>>

\* line 253: extractedImages || ...
ReuseExtracted_Never == FALSE

ReuseExtracted == extractedImages.defined

\* lines 236-267: the switch on format, up to the first await of each case
Switch ==
    /\ pc = "switch"
    /\ CASE format \in {"text", "markdown"} ->
              /\ pc' = "et_open"
              /\ UNCHANGED <<result, processedWith, response, callSite, ocrImages, ocrIdx>>
         [] format = "images" ->
              /\ result' = [images |-> extractedImages.images]
              /\ processedWith' = "pdf.js-enhanced"
              /\ pc' = "assemble"
              /\ UNCHANGED <<response, callSite, ocrImages, ocrIdx>>
         [] format = "ocr" ->
              IF ReuseExtracted
              THEN /\ ocrImages' = extractedImages.images
                   /\ ocrIdx' = 1
                   /\ pc' = "ocr_loop"
                   /\ UNCHANGED <<result, processedWith, response, callSite>>
              ELSE /\ callSite' = "ocr"
                   /\ pc' = "ei_open"
                   /\ UNCHANGED <<result, processedWith, response, ocrImages, ocrIdx>>
         [] OTHER ->
              /\ Respond(400, [error |-> "Invalid format specified"])
              /\ UNCHANGED <<result, processedWith, callSite, ocrImages, ocrIdx>>
    /\ UNCHANGED <<reqVars, extractedImages, eiVars, etVars, ocrVars, rasterRuns, textRuns>>

(***************************************************************************)
(* extractText (lines 38-65)                                               *)
(***************************************************************************)
\* lines 39-42, and the rethrow of lines 61-64 when getDocument rejects
ET_Open ==
    /\ pc = "et_open"
    /\ textRuns' = textRuns + 1
    /\ IF doc.parseOk
       THEN /\ fullText' = <<>>
            /\ etI' = 1
            /\ pc' = "et_page"
            /\ UNCHANGED <<response, pageText, text>>
       ELSE /\ Catch("Invalid PDF structure")
            /\ UNCHANGED etVars
    /\ UNCHANGED <<reqVars, extractedImages, result, processedWith, callSite, eiVars,
                   ocrVars, ocrImages, ocrIdx, rasterRuns>>

\* lines 44-58: one iteration of the page loop
ET_Page ==
    /\ pc = "et_page"
    /\ etI <= Len(doc.pages)
    /\ pageText' = PageTextOf(doc.pages[etI].tokens)
    /\ fullText' = fullText \o pageText' \o NL2
    /\ etI' = etI + 1
    /\ UNCHANGED <<pc, text, reqVars, extractedImages, outVars, callSite, eiVars,
                   ocrVars, ocrImages, ocrIdx, rasterRuns, textRuns>>

\* line 244: `# ${req.file.originalname}\n\n${text}`
Markdown_OneNewline(name, t) == <<"#", " ">> \o name \o <<"\n">> \o t

Markdown(name, t) == <<"#", " ">> \o name \o NL2 \o t

\* line 60, and the assignment of the case that called (lines 239, 244)
ET_Return ==
    /\ pc = "et_page"
    /\ etI > Len(doc.pages)
    /\ text' = Trim(fullText)
    /\ result' = IF format = "markdown"
                 THEN [text |-> Markdown(file.originalname, text')]
                 ELSE [text |-> text']
    /\ pc' = "assemble"
    /\ UNCHANGED <<etI, pageText, fullText, reqVars, extractedImages, processedWith,
                   response, callSite, eiVars, ocrVars, ocrImages, ocrIdx,
                   rasterRuns, textRuns>>

(***************************************************************************)
(* case 'ocr' (lines 252-264) and performOCR (lines 184-196)               *)
(***************************************************************************)
ocrRest == <<reqVars, extractedImages, callSite, eiVars, etVars, ocrImages,
             rasterRuns, textRuns>>

\* line 255: the loop head; lines 261-263 when the images are exhausted
OcrLoop ==
    /\ pc = "ocr_loop"
    /\ IF ocrIdx <= Len(ocrImages)
       THEN /\ pc' = "ocr_create"
            /\ UNCHANGED <<result, processedWith>>
       ELSE /\ result' = [text |-> Join(ocrResults, NL2)]
            /\ processedWith' = "pdf.js-enhanced+tesseract.js"
            /\ pc' = "assemble"
    /\ UNCHANGED <<ocrRest, ocrVars, ocrIdx, response>>

\* a call inside the try block of performOCR throws: control goes to the
\* finally block (line 193) with the exception pending
ThrowInTry_NoFinally(cause) ==
    /\ thrown' = cause
    /\ Catch(cause \o " failed")

ThrowInTry(cause) ==
    /\ thrown' = cause
    /\ pc' = "ocr_terminate"
    /\ UNCHANGED response

\* line 185
CreateWorker ==
    /\ pc = "ocr_create"
    /\ \/ /\ worker' = "held"
          /\ workersCreated' = workersCreated + 1
          /\ thrown' = "none"
          /\ pc' = "ocr_load"
          /\ UNCHANGED response
       \/ /\ Catch("createWorker failed")
          /\ UNCHANGED <<worker, workersCreated, thrown>>
    /\ UNCHANGED <<ocrRest, ocrIdx, ocrResults, ocrTexts, ocrText, terminateCalls,
                   recognizeCalls, result, processedWith>>

\* line 187
LoadLanguage ==
    /\ pc = "ocr_load"
    /\ \/ pc' = "ocr_init" /\ UNCHANGED <<thrown, response>>
       \/ ThrowInTry("loadLanguage")
    /\ UNCHANGED <<ocrRest, ocrIdx, ocrResults, ocrTexts, ocrText, worker,
                   workersCreated, terminateCalls, recognizeCalls, result, processedWith>>

\* line 188
Initialize ==
    /\ pc = "ocr_init"
    /\ \/ pc' = "ocr_recognize" /\ UNCHANGED <<thrown, response>>
       \/ ThrowInTry("initialize")
    /\ UNCHANGED <<ocrRest, ocrIdx, ocrResults, ocrTexts, ocrText, worker,
                   workersCreated, terminateCalls, recognizeCalls, result, processedWith>>

\* lines 190-192
Recognize ==
    /\ pc = "ocr_recognize"
    /\ recognizeCalls' = recognizeCalls + 1
    /\ \/ \E t \in OcrOutputs :
            /\ ocrText' = t
            /\ ocrTexts' = Append(ocrTexts, t)
            /\ pc' = "ocr_terminate"
            /\ UNCHANGED <<thrown, response>>
       \/ /\ ThrowInTry("recognize")
          /\ UNCHANGED <<ocrText, ocrTexts>>
    /\ UNCHANGED <<ocrRest, ocrIdx, ocrResults, worker, workersCreated,
                   terminateCalls, result, processedWith>>

\* line 257: if (ocrText.trim())
KeepBlock_NoTrim(t) == t # <<>>

KeepBlock(t) == Trim(t) # <<>>

\* lines 193-195: the finally block, then the return or the pending throw;
\* lines 257-259 when performOCR returned
Terminate ==
    /\ pc = "ocr_terminate"
    /\ terminateCalls' = terminateCalls + 1
    /\ worker' = "none"
    /\ \/ \* terminate resolves
          IF thrown # "none"
          THEN /\ Catch(thrown \o " failed")
               /\ UNCHANGED <<ocrResults, ocrIdx>>
          ELSE /\ ocrResults' = IF KeepBlock(ocrText)
                                THEN Append(ocrResults, ocrText)
                                ELSE ocrResults
               /\ ocrIdx' = ocrIdx + 1
               /\ pc' = "ocr_loop"
               /\ UNCHANGED response
       \/ \* terminate rejects: the rejection replaces the result of the try block
          /\ Catch("terminate failed")
          /\ UNCHANGED <<ocrResults, ocrIdx>>
    /\ UNCHANGED <<ocrRest, ocrTexts, thrown, ocrText, workersCreated,
                   recognizeCalls, result, processedWith>>

\* lines 270-272: result.images = extractedImages.images
WithImages(r) ==
    IF includeImages /\ format # "images"
    THEN [f \in DOMAIN r \cup {"images"} |->
            IF f = "images" THEN extractedImages.images ELSE r[f]]
    ELSE r

\* lines 275-280: result = { ...result, ...createMetadata(...) }
WithMetadata_Replace(r) ==
    IF includeMetadata
    THEN [metadata |-> createMetadata(file, processedWith)]
    ELSE r

WithMetadata(r) ==
    IF includeMetadata
    THEN [f \in DOMAIN r \cup {"metadata"} |->
            IF f = "metadata" THEN createMetadata(file, processedWith) ELSE r[f]]
    ELSE r

\* lines 269-282
Assemble ==
    /\ pc = "assemble"
    /\ IF includeImages /\ format # "images" /\ ~extractedImages.defined
       THEN \* extractedImages.images of undefined
            /\ Catch("Cannot read properties of undefined")
            /\ UNCHANGED result
       ELSE /\ result' = WithMetadata(WithImages(result))
            /\ Respond(200, result')
    /\ UNCHANGED <<reqVars, extractedImages, processedWith, callSite, eiVars, etVars,
                   ocrVars, ocrImages, ocrIdx, rasterRuns, textRuns>>

Next ==
    \/ CheckMethod \/ RunMiddleware \/ ParseBody \/ Switch
    \/ EI_Open \/ EI_Op \/ EI_Render \/ EI_Return
    \/ ET_Open \/ ET_Page \/ ET_Return
    \/ OcrLoop \/ CreateWorker \/ LoadLanguage \/ Initialize \/ Recognize \/ Terminate
    \/ Assemble

Spec == Init /\ [][Next]_vars

(***************************************************************************)
(* Properties                                                              *)
(***************************************************************************)
ValidFormats == {"text", "markdown", "images", "ocr"}

Sent == response[Len(response)]

Count(s, e) == Cardinality({k \in 1..Len(s) : s[k] = e})

\* C1: the Raster Extractor runs at most once per request; with format ocr and
\* includeImages it runs exactly once, and a successful result carries as
\* images the very sequence whose images were each fed to recognition.
C1_SingleRasterization ==
    /\ rasterRuns <= 1
    /\ (format = "ocr" /\ includeImages /\ pc # "ei_open") => rasterRuns = 1
    /\ (pc = "done" /\ format = "ocr" /\ includeImages /\ Sent.status = 200) =>
          /\ "images" \in DOMAIN Sent.body
          /\ Sent.body.images = ocrImages
          /\ recognizeCalls = Len(ocrImages)

C1_Witness ==
    /\ pc = "done" /\ format = "ocr" /\ includeImages
    /\ Sent.status = 200
    /\ Len(ocrImages) >= 2
    /\ rasterRuns = 1

\* C2: a request whose format is outside {text, markdown, images, ocr} runs no
\* stage (rasterization, text reconstruction, recognition) and ends in a
\* validation failure.
C2_FailFast ==
    format \notin ValidFormats =>
        /\ rasterRuns = 0 /\ textRuns = 0 /\ workersCreated = 0
        /\ pc = "done" => Sent.status = 400

\* C3: with format ocr, a request in which worker.recognize failed on an image
\* (and releasing the engine did not fail) still ends successfully.
C3_RecognitionRecovered ==
    (pc = "done" /\ format = "ocr" /\ thrown = "recognize"
       /\ Sent.body # [error |-> "Error processing PDF: terminate failed"]) =>
        Sent.status = 200

\* C4: at most one engine is held at any time, terminate is called on every
\* engine createWorker returned, and none is held when the response is sent.
C4_EngineReleased ==
    /\ workersCreated - terminateCalls \in {0, 1}
    /\ (worker = "held") <=> (workersCreated = terminateCalls + 1)
    /\ pc = "done" => (worker = "none" /\ terminateCalls = workersCreated)

C4_Witness ==
    /\ pc = "done"
    /\ thrown = "recognize"
    /\ workersCreated >= 2
    /\ terminateCalls = workersCreated

NoDoubleSpace(s) == \A k \in 1..(Len(s) - 1) : ~(s[k] = " " /\ s[k + 1] = " ")

NoOuterWs(s) == s = <<>> \/ (~IsWs(s[1]) /\ ~IsWs(s[Len(s)]))

\* C5: the string a page contributes to the text (pageText, after the fold of
\* the page's tokens) has no two consecutive spaces and neither starts nor
\* ends with whitespace.
C5_PageSpacing ==
    (pc = "et_page" /\ etI > 1) => (NoDoubleSpace(pageText) /\ NoOuterWs(pageText))

\* C6: the text extractText returns is the per-page strings, each trimmed,
\* joined with "\n\n" and trimmed.
C6_JoinedPages ==
    (pc = "assemble" /\ format \in {"text", "markdown"}) =>
        text = Trim(Join([i \in 1..Len(doc.pages) |->
                             Trim(PageTextOf(doc.pages[i].tokens))], NL2))

ParseFailed == file.present /\ ~doc.parseOk

C8_ClientErrors ==
    (pc = "done" /\ method = "POST"
       /\ (\/ ~upload.present
           \/ upload.size > FileSizeLimit
           \/ format \notin ValidFormats
           \/ ParseFailed)) =>
        Sent.status \in 400..499

\* the order the images are returned in
Ordered(s) ==
    \A k \in 1..Len(s) : \A l \in 1..Len(s) :
        k < l =>
          /\ s[k].pageNumber <= s[l].pageNumber
          /\ s[k].pageNumber = s[l].pageNumber =>
                ~(s[k].type = "image" /\ s[l].type = "page")

\* C9: in the sequence extractImages returns, page numbers are non-decreasing
\* and, within one page, the 'page' entry precedes every 'image' entry.
C9_Ordering == pc \in {"ei_done", "switch"} => Ordered(extractedImages.images)

C9_Witness ==
    /\ pc = "ei_done"
    /\ LET s == extractedImages.images IN
       /\ \E k \in 1..Len(s) : \E l \in 1..Len(s) : \E m \in 1..Len(s) :
             /\ k < l
             /\ s[k].type = "image" /\ s[l].type = "image" /\ s[m].type = "page"
             /\ s[k].pageNumber = 1 /\ s[l].pageNumber = 1 /\ s[m].pageNumber = 1
       /\ \E n \in 1..Len(s) : s[n].pageNumber = 2

\* C10: a paint operation whose resolution throws and a page whose render
\* fails are skipped alone: the returned sequence holds exactly one 'page'
\* entry per page whose render succeeded and one 'image' entry per paint
\* operation whose bitmap resolved and passed the filter, and nothing is
\* reported to the caller.
C10_ItemFailuresSkipped ==
    (pc = "ei_done" /\ doc.parseOk) =>
        LET out == extractedImages.images
            kept(i) == {j \in 1..Len(doc.pages[i].ops) :
                           /\ doc.pages[i].ops[j].outcome = "resolve"
                           /\ PassesFilter(doc.pages[i].ops[j].image)}
        IN /\ \A i \in 1..Len(doc.pages) :
                /\ Count(out, PageEntry(i, doc.pages[i])) =
                       (IF doc.pages[i].renderOk THEN 1 ELSE 0)
                /\ \A j \in 1..Len(doc.pages[i].ops) :
                       Count(out, EmbeddedEntry(i, j, doc.pages[i].ops[j].image)) =
                           (IF j \in kept(i) THEN 1 ELSE 0)
                /\ Cardinality({k \in 1..Len(out) : out[k].pageNumber = i}) =
                       Cardinality(kept(i)) + (IF doc.pages[i].renderOk THEN 1 ELSE 0)
           /\ \A k \in 1..Len(out) : out[k].pageNumber \in 1..Len(doc.pages)
           /\ response = <<>>

C10_Witness ==
    /\ pc = "ei_done"
    /\ Len(doc.pages) = 2
    /\ Len(doc.pages[1].ops) = 2
    /\ doc.pages[1].ops[1].outcome = "throw"
    /\ ~doc.pages[1].renderOk
    /\ \E k \in 1..Len(extractedImages.images) :
          extractedImages.images[k].pageNumber = 1
    /\ \E k \in 1..Len(extractedImages.images) :
          extractedImages.images[k].pageNumber = 2

\* C11: in a successful result, text is present exactly for the formats text,
\* markdown and ocr, images exactly when format is images or includeImages is
\* set, metadata exactly when includeMetadata is set, and there is no other
\* field.
C11_FieldPresence ==
    (pc = "done" /\ Sent.status = 200) =>
        /\ ("text" \in DOMAIN Sent.body) <=> (format \in {"text", "markdown", "ocr"})
        /\ ("images" \in DOMAIN Sent.body) <=> (format = "images" \/ includeImages)
        /\ ("metadata" \in DOMAIN Sent.body) <=> includeMetadata
        /\ DOMAIN Sent.body \subseteq {"text", "images", "metadata"}

C11_Witness ==
    /\ pc = "done" /\ Sent.status = 200
    /\ format = "ocr" /\ ~includeImages /\ includeMetadata
    /\ Len(ocrImages) >= 1
    /\ DOMAIN Sent.body = {"text", "metadata"}

IsBlock(t) == Trim(t) # <<>>

\* C12: with format ocr, the text of a successful result is the recognized
\* texts whose trimmed text is not empty, in image order, joined with "\n\n";
\* it is empty when every recognized text is empty or blank.
C12_OcrText ==
    (pc = "done" /\ format = "ocr" /\ Sent.status = 200) =>
        /\ Len(ocrTexts) = Len(ocrImages)
        /\ Sent.body.text = Join(SelectSeq(ocrTexts, IsBlock), NL2)
        /\ (\A k \in 1..Len(ocrTexts) : Trim(ocrTexts[k]) = <<>>) => Sent.body.text = <<>>

C12_Witness ==
    /\ pc = "done" /\ format = "ocr" /\ Sent.status = 200
    /\ Len(ocrTexts) >= 3
    /\ ocrTexts[1] = <<"y", "\n">>
    /\ ocrTexts[2] = <<" ">>
    /\ ocrTexts[3] = <<"x">>

\* the text of a document: every page's folded items followed by "\n\n",
\* concatenated and trimmed
RECURSIVE PagesText(_)
PagesText(ps) ==
    IF ps = <<>> THEN <<>>
    ELSE PageTextOf(Head(ps).tokens) \o NL2 \o PagesText(Tail(ps))

DocText(d) == Trim(PagesText(d.pages))

\* C13: the primary payload and metadata.processedWith of a successful result
\* follow the format, whatever includeImages is: text gives the document text
\* and 'text'; markdown gives '# <name>\n\n' followed by that same text and
\* 'markdown'; images gives the extracted sequence and 'pdf.js-enhanced'; ocr
\* gives the joined recognition results and 'pdf.js-enhanced+tesseract.js'.
C13_PrimaryPayload ==
    (pc = "done" /\ Sent.status = 200) =>
        LET b == Sent.body
            pw(v) == includeMetadata => b.metadata.processedWith = v
        IN /\ format = "text" => (b.text = DocText(doc) /\ pw("text"))
           /\ format = "markdown" =>
                 /\ b.text = <<"#", " ">> \o file.originalname \o NL2 \o DocText(doc)
                 /\ pw("markdown")
           /\ format = "images" =>
                 (b.images = extractedImages.images /\ pw("pdf.js-enhanced"))
           /\ format = "ocr" =>
                 /\ b.text = Join(ocrResults, NL2)
                 /\ pw("pdf.js-enhanced+tesseract.js")

C13_Witness ==
    /\ pc = "done" /\ Sent.status = 200
    /\ format = "markdown" /\ includeImages /\ includeMetadata
    /\ DocText(doc) # <<>>
    /\ Len(doc.pages) = 2

\* C14: a paint operation whose bitmap is at most 50 wide or at most 50 high,
\* or has no pixel data, never yields an 'image' entry; only bitmaps more than
\* 50 wide and more than 50 high with pixel data do.
C14_Threshold ==
    (pc = "ei_done" /\ doc.parseOk) =>
        LET out == extractedImages.images IN
        /\ \A i \in 1..Len(doc.pages) : \A j \in 1..Len(doc.pages[i].ops) :
              LET image == doc.pages[i].ops[j].image
                  has == \E k \in 1..Len(out) : out[k].data = <<"image", i, j>>
              IN /\ (image.width <= 50 \/ image.height <= 50 \/ ~image.data) => ~has
                 /\ has => (image.width > 50 /\ image.height > 50 /\ image.data)
        /\ \A k \in 1..Len(out) :
              out[k].type = "image" => (out[k].width > 50 /\ out[k].height > 50)

C14_Witness ==
    /\ pc = "ei_done"
    /\ Len(doc.pages) = 1
    /\ doc.pages[1].ops = <<Img(50, 51, TRUE), Img(51, 51, TRUE)>>
    /\ Len(extractedImages.images) = 2
    /\ extractedImages.images[1].type = "page"
    /\ extractedImages.images[2].type = "image"

\* C15: only a failure to acquire the engine fails the request: an ocr request
\* in which createWorker never failed and no call inside the try block threw
\* (so that at most the release failed) ends successfully.
C15_ReleaseFailureNotPropagated ==
    (pc = "done" /\ format = "ocr" /\ file.present /\ thrown = "none"
       /\ Sent.body # [error |-> "Error processing PDF: createWorker failed"]) =>
        Sent.status = 200

\* C16: every invocation sends exactly one response, with status 200, 400, 405
\* or 500: never two, nothing runs after it, and while none has been sent the
\* handler can still take a step.
C16_OneResponse ==
    /\ Len(response) <= 1
    /\ response # <<>> =>
          (pc = "done" /\ Sent.status \in {200, 400, 405, 500} /\ ~ENABLED Next)
    /\ response = <<>> => ENABLED Next

====
